---- MODULE Spec2Model ----
(***************************************************************************)
(* College football rankings: the schedule aggregator and week filter of   *)
(* college_football_ranking (dict of records), the Schedule class of       *)
(* college_football_rankings (list of Game objects), and the iterative     *)
(* power solver college_football_rankings.iterative.power.                 *)
(*                                                                         *)
(* Python's None is the empty tuple <<>> and any other optional value x is *)
(* the one-tuple <<x>>, so that "is None" can be asked of every value.     *)
(* A dict whose key order matters is a record [keys, rec]: the keys in     *)
(* insertion order and the mapping.                                        *)
(***************************************************************************)
EXTENDS Integers, Sequences, FiniteSets, TLC

VARIABLES
    games,          \* the raw games handed to the aggregators
    teams_dict,     \* college_football_ranking: team -> week -> (rival, margin)
    dict_error,     \* exception raised by create_teams_records_dict, or None
    cut_min,       \* smallest cutoff filter_week was called with so far
    cut_last,      \* cutoff of the latest filter_week call
    teams,          \* college_football_rankings: name -> Team.schedule.games
    filled,         \* fill_schedules has run
    sched_cut_min,   \* smallest cutoff filter_schedules was called with so far
    sched_cut_last,  \* cutoff of the latest filter_schedules call
    score,          \* power(): the score argument
    random_state,   \* power(): the random_state argument
    rnd,            \* power(): the RandomState, [stream, pos]
    pc,             \* power(): where the call is
    tries,          \* power(): index of the outer loop (attempts)
    round,          \* power(): index of the inner loop (rounds)
    teams_power,    \* power(): the map of the previous round
    new_teams_power,\* power(): the map being computed
    rounds_run,     \* relaxation rounds executed by the current call
    results,        \* what each finished call of power() gave its caller
    heap,           \* the list objects: reference -> content
    ranking_weeks,  \* Ranking._rankings: week -> reference of the stored list
    held,           \* references the caller of the Ranking holds
    ret,            \* what the latest query returned
    app_pc,         \* app: where main's ranking preparation is
    n_weeks,        \* app: the week argument of all_weeks_margins
    week_i,         \* app: iterations of the running loop completed so far
    team_schedules_copy, \* all_weeks_margins: the deep copy being filtered
    margins,        \* all_weeks_margins: the list of per-week margins
    rankings,       \* app.evaluate: week -> {name: ranking}
    inner,          \* the per-week dict objects: reference -> {name: ranking}
    outer,          \* the rankings dict objects: reference -> week -> reference
    args,           \* merge_rankings: the arguments, references of rankings dicts
    merged,         \* merge_rankings: the dict being built
    merge_pc,       \* merge_rankings: where the call is
    arg_i,          \* merge_rankings: position of the outer loop
    key_i,          \* merge_rankings: position of the inner loop
    given,          \* content of each argument when merge_rankings was called
    result          \* reference of the dict the latest call returned, 0 if none

sched_vars ==
    <<games, teams_dict, dict_error, cut_min, cut_last,
      teams, filled, sched_cut_min, sched_cut_last>>

power_vars ==
    <<score, random_state, rnd, pc, tries, round, teams_power, new_teams_power,
      rounds_run, results>>

rank_vars == <<heap, ranking_weeks, held, ret>>

app_vars == <<app_pc, n_weeks, week_i, team_schedules_copy, margins, rankings>>

merge_vars == <<inner, outer, args, merged, merge_pc, arg_i, key_i, given, result>>

----------------------------------------------------------------------------
(* Optional values *)

None == <<>>
Some(x) == <<x>>
Get(o) == o[1]
IsNone(o) == o = None

Min2(a, b) == IF a <= b THEN a ELSE b
Max2(a, b) == IF a >= b THEN a ELSE b

SeqToSet(s) == {s[i] : i \in 1..Len(s)}

----------------------------------------------------------------------------
(* Bounds of the model *)

\* Weeks of a season are 1..MaxWeek.
MaxWeek == 3
\* Longest list of raw games of the schedule specification.
MaxGames == 2

TeamNames == {"A", "B", "C"}

\* (home_points, away_points) of a raw game: unplayed, home win, away win,
\* draw, and the two half-reported scores.
ScoreLines ==
    { <<None, None>>, <<Some(2), Some(0)>>, <<Some(0), Some(1)>>,
      <<Some(1), Some(1)>>, <<Some(1), None>>, <<None, Some(1)>> }

----------------------------------------------------------------------------
(* Raw games: the game dicts of the API and the cfbd.Game objects.  Of     *)
(* fields that are only passed through, attendance and excitement_index    *)
(* and the line scores and win probabilities are kept because filter_score *)
(* erases them.                                                            *)

LineScores(points) == IF IsNone(points) THEN None ELSE Some(<<Get(points)>>)

WinProb(points, other) ==
    IF IsNone(points) \/ IsNone(other) THEN None
    ELSE Some(IF Get(points) > Get(other) THEN 1 ELSE 0)

RawGame(week, season_type, home, away, hp, ap) ==
    [ week |-> week, season_type |-> season_type, start_date |-> week,
      home_team |-> home, away_team |-> away,
      home_points |-> hp, away_points |-> ap,
      home_line_scores |-> LineScores(hp), away_line_scores |-> LineScores(ap),
      home_post_win_prob |-> WinProb(hp, ap), away_post_win_prob |-> WinProb(ap, hp),
      attendance |-> IF IsNone(hp) THEN None ELSE Some(100),
      excitement_index |-> IF IsNone(hp) THEN None ELSE Some(1) ]

Fixtures == { <<"A", "B">>, <<"B", "C">>, <<"C", "A">> }

RawGames ==
    { RawGame(w, "regular", f[1], f[2], s[1], s[2]) :
        w \in 1..MaxWeek, f \in Fixtures, s \in ScoreLines }

Plays(g, t) == g.home_team = t \/ g.away_team = t

\* No team has two games in the same week.
OneGamePerWeek(gs) ==
    \A i, j \in 1..Len(gs) :
        (i # j /\ gs[i].week = gs[j].week) =>
            \A t \in {gs[i].home_team, gs[i].away_team} : ~Plays(gs[j], t)

GameLists ==
    { gs \in UNION { [1..n -> RawGames] : n \in 0..MaxGames } : OneGamePerWeek(gs) }

----------------------------------------------------------------------------
(* college_football_ranking.create_teams_records_dict *)

EmptyDict == [keys |-> <<>>, rec |-> <<>>]

\* dict_[key] = val: a new key goes last, an old key keeps its place.
DictSet(d, key, val) ==
    IF key \in SeqToSet(d.keys)
    THEN [d EXCEPT !.rec = [d.rec EXCEPT ![key] = val]]
    ELSE [keys |-> Append(d.keys, key),
          rec |-> [k \in SeqToSet(d.keys) \cup {key} |->
                      IF k = key THEN val ELSE d.rec[k]]]

\* records.update({week: rec}) on a week -> record mapping.
RecordsUpdate(records, week, rec) ==
    [w \in DOMAIN records \cup {week} |-> IF w = week THEN rec ELSE records[w]]

\* The game's points are subtracted without looking at away_points.
PointsDiffRaises(game) == ~IsNone(game.home_points) /\ IsNone(game.away_points)

HomePointsDiff(game) ==
    IF ~IsNone(game.home_points)
    THEN Some(Get(game.home_points) - Get(game.away_points))
    ELSE None

AwayPointsDiff(game) ==
    IF ~IsNone(game.home_points)
    THEN Some(Get(game.away_points) - Get(game.home_points))
    ELSE None

\* One pass of the loop over games.
AddGameRecords(d, game) ==
    LET home == game.home_team
        away == game.away_team
        d1 == DictSet(d, home,
                 RecordsUpdate(IF home \in SeqToSet(d.keys) THEN d.rec[home] ELSE <<>>,
                               game.week, <<Some(away), HomePointsDiff(game)>>))
    IN  DictSet(d1, away,
            RecordsUpdate(IF away \in SeqToSet(d1.keys) THEN d1.rec[away] ELSE <<>>,
                          game.week, <<Some(home), AwayPointsDiff(game)>>))

RECURSIVE GamesLoop(_, _)
GamesLoop(gs, n) ==
    IF n = 0 THEN EmptyDict ELSE AddGameRecords(GamesLoop(gs, n - 1), gs[n])

RECURSIVE LastWeek(_, _)
LastWeek(gs, n) ==
    IF n = 0 THEN 0 ELSE Max2(LastWeek(gs, n - 1), gs[n].week)

\* FillRecords with the loop stopping one week early: range(1, last_week).
FillRecordsShort(records, last_week) ==
    [w \in DOMAIN records \cup (1..(last_week - 1)) |->
        IF w \in DOMAIN records THEN records[w] ELSE <<None, None>>]

\* The closing loop: every week of 1..last_week without a record gets (None, None).
FillRecords(records, last_week) ==
    [w \in DOMAIN records \cup (1..last_week) |->
        IF w \in DOMAIN records THEN records[w] ELSE <<None, None>>]

FillByes(d, last_week) ==
    [d EXCEPT !.rec = [t \in DOMAIN d.rec |-> FillRecords(d.rec[t], last_week)]]

\* Index of the first game whose subtraction raises TypeError, 0 if none does.
FirstRaising(gs) ==
    LET bad == {i \in 1..Len(gs) : PointsDiffRaises(gs[i])}
    IN  IF bad = {} THEN 0 ELSE CHOOSE i \in bad : \A j \in bad : i <= j

\* The returned dict when no game raises.
TeamsRecordsDict(gs) == FillByes(GamesLoop(gs, Len(gs)), LastWeek(gs, Len(gs)))

----------------------------------------------------------------------------
(* college_football_ranking.filter_week *)

\* FilterRecords erasing only the week that follows the cutoff.
FilterRecordsNextOnly(records, week) ==
    [w \in DOMAIN records |-> IF w = week + 1 THEN <<None, None>> ELSE records[w]]

FilterRecords(records, week) ==
    [w \in DOMAIN records |-> IF w > week THEN <<None, None>> ELSE records[w]]

FilterWeekDict(d, week) ==
    [d EXCEPT !.rec = [t \in DOMAIN d.rec |-> FilterRecords(d.rec[t], week)]]

----------------------------------------------------------------------------
(* college_football_rankings: Game, Schedule *)

\* Game.margin
Margin(game) ==
    IF IsNone(game.team_points) \/ IsNone(game.opponent_points)
    THEN None
    ELSE Some(Get(game.team_points) - Get(game.opponent_points))

\* The Game built by Schedule.add_game: the raw game from the team's side.
GamePov(team, game) ==
    IF game.home_team = team
    THEN [ week |-> game.week, season_type |-> game.season_type,
           start_date |-> game.start_date,
           attendance |-> game.attendance,
           team_points |-> game.home_points,
           team_line_scores |-> game.home_line_scores,
           team_post_win_prob |-> game.home_post_win_prob,
           opponent |-> game.away_team,
           opponent_points |-> game.away_points,
           opponent_line_scores |-> game.away_line_scores,
           opponent_post_win_prob |-> game.away_post_win_prob,
           excitement_index |-> game.excitement_index ]
    ELSE [ week |-> game.week, season_type |-> game.season_type,
           start_date |-> game.start_date,
           attendance |-> game.attendance,
           team_points |-> game.away_points,
           team_line_scores |-> game.away_line_scores,
           team_post_win_prob |-> game.away_post_win_prob,
           opponent |-> game.home_team,
           opponent_points |-> game.home_points,
           opponent_line_scores |-> game.home_line_scores,
           opponent_post_win_prob |-> game.home_post_win_prob,
           excitement_index |-> game.excitement_index ]

\* sorted(games, key=start_date) after an append to a sorted list: the new
\* game goes after every game that does not start later (the sort is stable).
InsertByDate(sched, g) ==
    LET before == {i \in 1..Len(sched) : sched[i].start_date <= g.start_date}
        k == Cardinality(before)
    IN  SubSeq(sched, 1, k) \o <<g>> \o SubSeq(sched, k + 1, Len(sched))

\* Schedule.add_game
AddGame(sched, team, game) == InsertByDate(sched, GamePov(team, game))

\* Schedule.filter_score
ClearScore(game) ==
    [game EXCEPT !.team_points = None, !.team_line_scores = None,
                 !.team_post_win_prob = None, !.opponent_points = None,
                 !.opponent_line_scores = None, !.opponent_post_win_prob = None,
                 !.attendance = None, !.excitement_index = None]

FilterScore(sched, max_week) ==
    [i \in 1..Len(sched) |->
        IF sched[i].week > max_week THEN ClearScore(sched[i]) ELSE sched[i]]

\* create_teams_instances: one Team, with an empty schedule, per name.
TeamsInstances == [t \in TeamNames |-> <<>>]

\* fill_schedules
RECURSIVE FillSchedulesLoop(_, _, _)
FillSchedulesLoop(ts, gs, n) ==
    IF n = 0 THEN ts
    ELSE LET t1 == FillSchedulesLoop(ts, gs, n - 1)
             g == gs[n]
             t2 == [t1 EXCEPT ![g.home_team] = AddGame(t1[g.home_team], g.home_team, g)]
         IN  [t2 EXCEPT ![g.away_team] = AddGame(t2[g.away_team], g.away_team, g)]

\* filter_schedules
FilterSchedulesAll(ts, max_week) ==
    [t \in DOMAIN ts |-> FilterScore(ts[t], max_week)]

----------------------------------------------------------------------------
(* college_football_rankings.iterative: floats                             *)
(*                                                                         *)
(* A float x of the solver is the integer floor(x * Unit): seven decimal   *)
(* digits, ten units to the 1e-6 of the stopping test.  Sums, differences  *)
(* and products with an integer margin are exact; only the division of     *)
(* norm rounds (down).                                                     *)

Unit == 10 * 1000 * 1000
One == Unit
Half == Unit \div 2

\* Loop bounds and stopping threshold of power().
Tries == 3
Rounds == 100
\* 1 / 1e-6
InvTol == 1000000

Abs(x) == IF x < 0 THEN -x ELSE x

\* <<q, r>> with a * b = q * d + r and 0 <= r < d, by doubling: <<qa, ra>>
\* is the quotient and remainder of a * 2^i, <<q, r>> those of the part of
\* the product already summed, so that no intermediate value exceeds
\* 2 * d or the quotient.
RECURSIVE MulDivAcc(_, _, _, _, _, _)
MulDivAcc(b, qa, ra, q, r, d) ==
    IF b = 0 THEN <<q, r>>
    ELSE MulDivAcc(b \div 2, 2 * qa + ((2 * ra) \div d), (2 * ra) % d,
                   IF b % 2 = 1 THEN q + qa + ((r + ra) \div d) ELSE q,
                   IF b % 2 = 1 THEN (r + ra) % d ELSE r,
                   d)

MulDivQR(a, b, d) == MulDivAcc(b, a \div d, a % d, 0, 0, d)

\* (val - min_val) / diff
FloatDiv(num, den) == MulDivQR(num, Unit, den)[1]

\* x < 1e-6: Unit is a multiple of InvTol.
BelowTol(x) == x < Unit \div InvTol

----------------------------------------------------------------------------
(* numpy.random.RandomState as power() uses it: the stream of a seed is    *)
(* fixed, the stream of RandomState(None) is whatever the operating        *)
(* system's entropy selects.  Stream 0 and stream 1 are the first draws of *)
(* RandomState(0).random() and RandomState(1).random().                    *)

Streams ==
    << <<5488135, 7151893, 6027633, 5448831, 4236547, 6458941,
         4375872, 8917730, 9636627, 3834415, 7917250, 5288949>>,
       <<4170220, 7203244, 1143, 3023325, 1467558, 923385,
         1862602, 3455607, 3967674, 5388167, 4191945, 6852195>> >>

Seeds == {0, 1}

\* RandomState seeded from the operating system for every argument.
RandomStatesUnseeded(state) ==
    {[stream |-> k + 1, pos |-> 0] : k \in Seeds}

\* np.random.RandomState(random_state): the generators it may construct.
RandomStates(state) ==
    IF IsNone(state)
    THEN {[stream |-> k + 1, pos |-> 0] : k \in Seeds}
    ELSE {[stream |-> Get(state) + 1, pos |-> 0]}

\* The k-th next value of rnd.random().
Random(r, k) == Streams[r.stream][r.pos + k]

----------------------------------------------------------------------------
(* college_football_rankings.iterative: norm, max_val_diff, power *)

SetMax(S) == CHOOSE x \in S : \A y \in S : y <= x
SetMin(S) == CHOOSE x \in S : \A y \in S : x <= y

Values(f) == {f[k] : k \in DOMAIN f}

\* norm with the scale turned round: (max_val - val) / diff.
NormReversed(dict_) ==
    LET max_val == SetMax(Values(dict_))
        min_val == SetMin(Values(dict_))
        diff == max_val - min_val
    IN  IF diff = 0
        THEN [name \in DOMAIN dict_ |-> Half]
        ELSE [key \in DOMAIN dict_ |-> FloatDiv(max_val - dict_[key], diff)]

\* norm guarding the division by adding one unit to diff instead of testing it.
NormEpsilon(dict_) ==
    LET max_val == SetMax(Values(dict_))
        min_val == SetMin(Values(dict_))
        diff == max_val - min_val
    IN  [key \in DOMAIN dict_ |-> FloatDiv(dict_[key] - min_val, diff + 1)]

\* norm giving 0 instead of 0.5 to a tied map.
NormTieZero(dict_) ==
    LET max_val == SetMax(Values(dict_))
        min_val == SetMin(Values(dict_))
        diff == max_val - min_val
    IN  IF diff = 0
        THEN [name \in DOMAIN dict_ |-> 0]
        ELSE [key \in DOMAIN dict_ |-> FloatDiv(dict_[key] - min_val, diff)]

\* norm
Norm(dict_) ==
    LET max_val == SetMax(Values(dict_))
        min_val == SetMin(Values(dict_))
        diff == max_val - min_val
    IN  IF diff = 0
        THEN [name \in DOMAIN dict_ |-> Half]
        ELSE [key \in DOMAIN dict_ |-> FloatDiv(dict_[key] - min_val, diff)]

\* max_val_diff taking the smallest difference.
MinValDiff(dict1, dict2) ==
    SetMin({Abs(dict1[k] - dict2[k]) : k \in DOMAIN dict1})

\* max_val_diff: both dicts have the same keys in the same order.
MaxValDiff(dict1, dict2) ==
    SetMax({Abs(dict1[k] - dict2[k]) : k \in DOMAIN dict1})

\* np.clip(balance, -1, 1)
Clip(balance) == Max2(-1, Min2(1, balance))

\* The balance of a record as the round uses it.
Balance(record, consider_score) ==
    IF consider_score THEN Get(record[2]) ELSE Clip(Get(record[2]))

\* teams_power[rival] raises KeyError.
LookupRaises(record, power_map) ==
    /\ ~IsNone(record[2])
    /\ (IsNone(record[1]) \/ Get(record[1]) \notin DOMAIN power_map)

\* Points of a loss counted like points of a win: teams_power[rival] * balance.
PointsLossAsWin(record, power_map, consider_score) ==
    IF IsNone(record[2]) THEN 0
    ELSE power_map[Get(record[1])] * Balance(record, consider_score)

\* What one record adds to new_teams_power[name].
Points(record, power_map, consider_score) ==
    IF IsNone(record[2]) THEN 0
    ELSE LET balance == Balance(record, consider_score) IN
         IF balance > 0
         THEN power_map[Get(record[1])] * balance
         ELSE (One - power_map[Get(record[1])]) * balance

RECURSIVE SumPoints(_, _, _, _)
SumPoints(records, weeks, power_map, consider_score) ==
    IF weeks = {} THEN 0
    ELSE LET w == SetMin(weeks) IN
         Points(records[w], power_map, consider_score)
             + SumPoints(records, weeks \ {w}, power_map, consider_score)

\* The map the loop reads a rival's power from, were teams_power and
\* new_teams_power one dict: the values already updated in this round.
SnapshotInPlace(previous, updated) == updated

\* The map the loop reads a rival's power from: teams_power, which the
\* round does not write (new_teams_power is a copy).
Snapshot(previous, updated) == previous

\* The loop over the first k teams of one round, in the given order:
\* new_teams_power[name] = 0, then the points of every record.
RECURSIVE RelaxLoop(_, _, _, _, _, _)
RelaxLoop(records_dict, order, k, previous, updated, consider_score) ==
    IF k = 0 THEN updated
    ELSE LET before == RelaxLoop(records_dict, order, k - 1, previous, updated,
                                 consider_score)
             name == order[k]
         IN  [before EXCEPT ![name] =
                 SumPoints(records_dict.rec[name], DOMAIN records_dict.rec[name],
                           Snapshot(previous, before), consider_score)]

\* The loop over teams of one round: the unnormalized new powers.
Relax(records_dict, power_map, consider_score) ==
    RelaxLoop(records_dict, records_dict.keys, Len(records_dict.keys),
              power_map, power_map, consider_score)

\* Some lookup of the round raises KeyError.
RoundRaises(records_dict, power_map) ==
    \E name \in DOMAIN power_map : \E w \in DOMAIN records_dict.rec[name] :
        LookupRaises(records_dict.rec[name][w], power_map)

\* teams_power = {name: rnd.random() for name in teams_records.keys()}
InitialPower(records_dict, r) ==
    [name \in SeqToSet(records_dict.keys) |->
        Random(r, CHOOSE k \in 1..Len(records_dict.keys) : records_dict.keys[k] = name)]

----------------------------------------------------------------------------
(* college_football_ranking.evaluate: the ranking of a power map *)

NameOrder == <<"A", "B", "C", "D">>
NameIndex(name) == CHOOSE k \in 1..Len(NameOrder) : NameOrder[k] = name

\* (power1, team1) < (power2, team2) as Python orders tuples.
PairLess(p1, t1, p2, t2) ==
    p1 < p2 \/ (p1 = p2 /\ NameIndex(t1) < NameIndex(t2))

\* [team for _, team in sorted(zip(power, teams), reverse=True)]
SortTeams(power_map) ==
    LET T == DOMAIN power_map
        rank(t) == 1 + Cardinality({u \in T : PairLess(power_map[t], t, power_map[u], u)})
    IN  [k \in 1..Cardinality(T) |-> CHOOSE t \in T : rank(t) = k]

\* The power variables while power() is not running.
PowerIdle ==
    /\ score = FALSE
    /\ random_state = None
    /\ rnd = None
    /\ pc = "idle"
    /\ tries = 0
    /\ round = 0
    /\ teams_power = <<>>
    /\ new_teams_power = <<>>
    /\ rounds_run = 0
    /\ results = <<>>

\* The Ranking variables while no Ranking is in use.
RankIdle ==
    /\ heap = <<>>
    /\ ranking_weeks = [keys |-> <<>>, ref |-> <<>>]
    /\ held = {}
    /\ ret = None

\* The app variables while main is not preparing rankings.
AppIdle ==
    /\ app_pc = "idle"
    /\ n_weeks = 0
    /\ week_i = 0
    /\ team_schedules_copy = None
    /\ margins = <<>>
    /\ rankings = <<>>

\* The merge variables while merge_rankings has nothing to merge.
MergeIdle ==
    /\ inner = <<>>
    /\ outer = <<>>
    /\ args = <<>>
    /\ merged = EmptyDict
    /\ merge_pc = "idle"
    /\ arg_i = 0
    /\ key_i = 0
    /\ given = <<>>
    /\ result = 0

----------------------------------------------------------------------------
(* The schedule specification: both aggregators and both filters *)

Cutoffs == 0..MaxWeek

LowerCut(cur, week) == IF IsNone(cur) THEN Some(week) ELSE Some(Min2(Get(cur), week))

Init ==
    /\ games \in GameLists
    /\ teams_dict = None
    /\ dict_error = None
    /\ cut_min = None
    /\ cut_last = None
    /\ teams = TeamsInstances
    /\ filled = FALSE
    /\ sched_cut_min = None
    /\ sched_cut_last = None
    /\ PowerIdle
    /\ RankIdle
    /\ AppIdle
    /\ MergeIdle

CreateTeamsRecordsDict ==
    /\ IsNone(teams_dict)
    /\ IsNone(dict_error)
    /\ IF FirstRaising(games) # 0
       THEN /\ dict_error' = Some("TypeError")
            /\ UNCHANGED teams_dict
       ELSE /\ teams_dict' = Some(TeamsRecordsDict(games))
            /\ UNCHANGED dict_error
    /\ UNCHANGED <<games, cut_min, cut_last, teams, filled, sched_cut_min, sched_cut_last>>
    /\ UNCHANGED power_vars
    /\ UNCHANGED <<rank_vars, app_vars, merge_vars>>

FilterWeek(week) ==
    /\ ~IsNone(teams_dict)
    /\ teams_dict' = Some(FilterWeekDict(Get(teams_dict), week))
    /\ cut_min' = LowerCut(cut_min, week)
    /\ cut_last' = Some(week)
    /\ UNCHANGED <<games, dict_error, teams, filled, sched_cut_min, sched_cut_last>>
    /\ UNCHANGED power_vars
    /\ UNCHANGED <<rank_vars, app_vars, merge_vars>>

FillSchedules ==
    /\ ~filled
    /\ teams' = FillSchedulesLoop(teams, games, Len(games))
    /\ filled' = TRUE
    /\ UNCHANGED <<games, teams_dict, dict_error, cut_min, cut_last,
                   sched_cut_min, sched_cut_last>>
    /\ UNCHANGED power_vars
    /\ UNCHANGED <<rank_vars, app_vars, merge_vars>>

FilterSchedules(max_week) ==
    /\ filled
    /\ teams' = FilterSchedulesAll(teams, max_week)
    /\ sched_cut_min' = LowerCut(sched_cut_min, max_week)
    /\ sched_cut_last' = Some(max_week)
    /\ UNCHANGED <<games, teams_dict, dict_error, cut_min, cut_last, filled>>
    /\ UNCHANGED power_vars
    /\ UNCHANGED <<rank_vars, app_vars, merge_vars>>

Next ==
    \/ CreateTeamsRecordsDict
    \/ \E week \in Cutoffs : FilterWeek(week)
    \/ FillSchedules
    \/ \E max_week \in Cutoffs : FilterSchedules(max_week)

vars == <<sched_vars, power_vars, rank_vars, app_vars, merge_vars>>

Spec == Init /\ [][Next]_vars

----------------------------------------------------------------------------
(* The solver specification: evaluate() of college_football_ranking has    *)
(* aggregated the games and filtered them to a week, and calls power().    *)

\* Calls of power() with the same arguments.
MaxCalls == 2

Game(week, home, away, hp, ap) == RawGame(week, "regular", home, away, Some(hp), Some(ap))
Unplayed(week, home, away) == RawGame(week, "regular", home, away, None, None)

\* A beat B by 10 in week 1; their week-2 game is not played yet.
TwoTeamGames == <<Game(1, "A", "B", 10, 0), Unplayed(2, "A", "B")>>
\* A beat B, B beat C, C beat A, all by 10.
CycleGames == <<Game(1, "A", "B", 10, 0), Game(2, "B", "C", 10, 0), Game(3, "C", "A", 10, 0)>>
\* A lost to B by 2 and to C by 1, and beat D.
StarGames == <<Game(1, "A", "B", 0, 2), Game(2, "A", "C", 0, 1), Game(3, "A", "D", 1, 0)>>
\* B beat A by 10, C beat B by 1, D beat C by 10.
ChainGames == <<Game(1, "A", "B", 0, 10), Game(2, "B", "C", 0, 1), Game(3, "C", "D", 0, 10)>>
\* A and B drew, C beat D, A against C is not played yet.
DrawGames == <<Game(1, "A", "B", 1, 1), Game(2, "C", "D", 2, 0), Unplayed(3, "A", "C")>>

ScenarioGames == {TwoTeamGames, CycleGames, StarGames, ChainGames, DrawGames}

\* The teams_records argument of power().
TeamsRecords == IF app_pc = "solving" THEN margins[week_i + 1] ELSE Get(teams_dict)

InitPower ==
    /\ games \in ScenarioGames
    /\ \E week \in Cutoffs :
          /\ teams_dict = Some(FilterWeekDict(TeamsRecordsDict(games), week))
          /\ cut_min = Some(week)
          /\ cut_last = Some(week)
    /\ dict_error = None
    /\ teams = TeamsInstances
    /\ filled = FALSE
    /\ sched_cut_min = None
    /\ sched_cut_last = None
    /\ score \in BOOLEAN
    /\ random_state \in {None} \cup {Some(k) : k \in Seeds}
    /\ rnd = None
    /\ pc = "idle"
    /\ tries = 0
    /\ round = 0
    /\ teams_power = <<>>
    /\ new_teams_power = <<>>
    /\ rounds_run = 0
    /\ results = <<>>
    /\ RankIdle
    /\ AppIdle
    /\ MergeIdle

Result(kind, power_map) == [kind |-> kind, power |-> power_map, ranking |-> None]

\* power() is called: rnd = np.random.RandomState(random_state).
Call ==
    /\ pc \in {"idle", "ranked", "raised"}
    /\ Len(results) < MaxCalls
    /\ \E r \in RandomStates(random_state) : rnd' = Some(r)
    /\ pc' = "try"
    /\ tries' = 0
    /\ round' = 0
    /\ teams_power' = <<>>
    /\ new_teams_power' = <<>>
    /\ rounds_run' = 0
    /\ UNCHANGED <<score, random_state, results>>
    /\ UNCHANGED sched_vars
    /\ UNCHANGED <<rank_vars, app_vars, merge_vars>>

\* The head of the outer loop: fresh random powers for every team.
StartTry ==
    /\ pc = "try"
    /\ teams_power' = InitialPower(TeamsRecords, Get(rnd))
    /\ new_teams_power' = teams_power'
    /\ rnd' = Some([Get(rnd) EXCEPT !.pos = @ + Len(TeamsRecords.keys)])
    /\ round' = 0
    /\ pc' = "round"
    /\ UNCHANGED <<score, random_state, tries, rounds_run, results>>
    /\ UNCHANGED sched_vars
    /\ UNCHANGED <<rank_vars, app_vars, merge_vars>>

\* One pass of the inner loop: relax, normalize, compare, and either return
\* or adopt the new map and go on to the next round, the next try or the end.
Round ==
    /\ pc = "round"
    /\ rounds_run' = rounds_run + 1
    /\ IF TeamsRecords.keys = <<>>
       THEN /\ pc' = "raised"
            /\ results' = Append(results, Result("ValueError", None))
            /\ UNCHANGED <<teams_power, new_teams_power, round, tries>>
       ELSE IF RoundRaises(TeamsRecords, teams_power)
       THEN /\ pc' = "raised"
            /\ results' = Append(results, Result("KeyError", None))
            /\ UNCHANGED <<teams_power, new_teams_power, round, tries>>
       ELSE LET new == Norm(Relax(TeamsRecords, teams_power, score)) IN
            /\ new_teams_power' = new
            /\ IF BelowTol(MaxValDiff(teams_power, new))
               THEN /\ pc' = "returned"
                    /\ results' = Append(results, Result("returned", Some(new)))
                    /\ UNCHANGED <<teams_power, round, tries>>
               ELSE /\ teams_power' = new
                    /\ UNCHANGED results
                    /\ IF round + 1 < Rounds
                       THEN /\ round' = round + 1
                            /\ pc' = "round"
                            /\ UNCHANGED tries
                       ELSE /\ round' = round + 1
                            /\ tries' = tries + 1
                            /\ pc' = IF tries + 1 < Tries THEN "try" ELSE "exhausted"
    /\ UNCHANGED <<score, random_state, rnd>>
    /\ UNCHANGED sched_vars
    /\ UNCHANGED <<rank_vars, app_vars, merge_vars>>

\* Out of tries: raise EquilibriumError.
Raise ==
    /\ pc = "exhausted"
    /\ pc' = "raised"
    /\ results' = Append(results, Result("EquilibriumError", None))
    /\ UNCHANGED <<score, random_state, rnd, tries, round, teams_power,
                   new_teams_power, rounds_run>>
    /\ UNCHANGED sched_vars
    /\ UNCHANGED <<rank_vars, app_vars, merge_vars>>

\* evaluate() sorts the teams of the returned map.
Rank ==
    /\ pc = "returned"
    /\ pc' = "ranked"
    /\ results' = [results EXCEPT ![Len(results)].ranking =
                      Some(SortTeams(Get(results[Len(results)].power)))]
    /\ UNCHANGED <<score, random_state, rnd, tries, round, teams_power,
                   new_teams_power, rounds_run>>
    /\ UNCHANGED sched_vars
    /\ UNCHANGED <<rank_vars, app_vars, merge_vars>>

NextPower ==
    \/ Call
    \/ StartTry
    \/ Round
    \/ Raise
    \/ Rank

SpecPower == InitPower /\ [][NextPower]_vars

----------------------------------------------------------------------------
(* Properties of the solver specification *)

Kinds(k) == \A i \in 1..Len(results) : results[i].kind = k
Returned == pc \in {"returned", "ranked"}
MapIs(m, T, v) == DOMAIN m = T /\ \A t \in T : m[t] = v

\* The arguments of the two-team scenario: A beat B by 10 in week 1, week 2
\* is a bye for both, margin-unaware mode, seed 0.
TwoTeamScenario ==
    /\ TeamsRecords.keys = <<"A", "B">>
    /\ TeamsRecords.rec["A"] = <<(<<Some("B"), Some(10)>>), (<<None, None>>)>>
    /\ TeamsRecords.rec["B"] = <<(<<Some("A"), Some(-10)>>), (<<None, None>>)>>
    /\ ~score
    /\ random_state = Some(0)

TopBottom == [A |-> One, B |-> 0]
Tie == [A |-> Half, B |-> Half]

\* C1 as claimed (two-team scenario): power() returns A = 1.0, B = 0.0 and
\* the ranking assembled from it is [A, B].
C1_TwoTeamReturns ==
    (TwoTeamScenario /\ pc \in {"ranked", "raised"}) =>
        /\ results[Len(results)].kind = "returned"
        /\ results[Len(results)].power = Some(TopBottom)
        /\ results[Len(results)].ranking = Some(<<"A", "B">>)

\* C1 as amended: in the two-team scenario the normalized map is
\* A = 1.0, B = 0.0 after every odd round of a try (a map that ranks [A, B])
\* and the tie A = B = 0.5 after every even round, so no round changes the
\* map by less than 1e-6: power() never returns, and after 3 tries of 100
\* rounds it raises EquilibriumError.
C1_TwoTeamOscillates ==
    TwoTeamScenario =>
        /\ ~Returned
        /\ Kinds("EquilibriumError")
        /\ (pc \in {"round", "try", "exhausted", "raised"} /\ round >= 1) =>
              /\ teams_power = (IF round % 2 = 1 THEN TopBottom ELSE Tie)
              /\ round % 2 = 1 => SortTeams(teams_power) = <<"A", "B">>
        /\ pc = "raised" => rounds_run = Tries * Rounds

\* C1 witness: the two-team call has raised after its 300 rounds.
C1_Witness ==
    /\ TwoTeamScenario
    /\ pc = "raised"
    /\ rounds_run = Tries * Rounds
    /\ results = <<Result("EquilibriumError", None)>>

\* The arguments of the three-team cycle: A beat B, B beat C, C beat A, all
\* by 10, margin-unaware mode.
CycleScenario ==
    /\ TeamsRecords.keys = <<"A", "B", "C">>
    /\ TeamsRecords.rec["A"] =
          <<(<<Some("B"), Some(10)>>), (<<None, None>>), (<<Some("C"), Some(-10)>>)>>
    /\ TeamsRecords.rec["B"] =
          <<(<<Some("A"), Some(-10)>>), (<<Some("C"), Some(10)>>), (<<None, None>>)>>
    /\ TeamsRecords.rec["C"] =
          <<(<<None, None>>), (<<Some("B"), Some(-10)>>), (<<Some("A"), Some(10)>>)>>
    /\ ~score

\* max(values) = 1 and min(values) = 0, or every value is 0.5.
Normalized(m) ==
    \/ /\ \E t \in DOMAIN m : m[t] = One
       /\ \E t \in DOMAIN m : m[t] = 0
       /\ \A t \in DOMAIN m : 0 <= m[t] /\ m[t] <= One
    \/ \A t \in DOMAIN m : m[t] = Half

\* C2 as claimed (three-team cycle): power() returns a map, which satisfies
\* the normalization invariant, and does not raise EquilibriumError.
C2_CycleConverges ==
    (CycleScenario /\ pc \in {"returned", "ranked", "raised"}) =>
        /\ results[Len(results)].kind = "returned"
        /\ Normalized(Get(results[Len(results)].power))

\* A round of the cycle turns every power p into 1 - p.
CycleFlips ==
    (CycleScenario /\ pc = "round" /\ round >= 1) =>
        \A t \in DOMAIN teams_power : teams_power'[t] = One - teams_power[t]

\* C2 as amended: in the three-team cycle, with the initial powers of
\* RandomState(0), RandomState(1) or either of them for an unseeded call,
\* every map after a round has maximum 1 and minimum 0, and every later
\* round turns each power p into 1 - p, a change of 1 for the top and the
\* bottom team: power() never returns and raises EquilibriumError.
C2_CycleOscillates ==
    /\ [](CycleScenario =>
            /\ ~Returned
            /\ Kinds("EquilibriumError")
            /\ (pc \in {"round", "try", "exhausted", "raised"} /\ round >= 1) =>
                  /\ \E t \in DOMAIN teams_power : teams_power[t] = One
                  /\ \E t \in DOMAIN teams_power : teams_power[t] = 0
                  /\ \A t \in DOMAIN teams_power :
                        0 <= teams_power[t] /\ teams_power[t] <= One)
    /\ [][CycleFlips]_vars

\* C2 witness: a call on the cycle has raised after its 300 rounds.
C2_Witness ==
    /\ CycleScenario
    /\ pc = "raised"
    /\ rounds_run = Tries * Rounds
    /\ results[Len(results)].kind = "EquilibriumError"

\* No record of the team set has a margin.
NoMargins ==
    \A t \in DOMAIN TeamsRecords.rec : \A w \in DOMAIN TeamsRecords.rec[t] :
        IsNone(TeamsRecords.rec[t][w][2])

\* C3 as claimed (no games played): power() raises EquilibriumError and
\* never returns the map in which every team has power 0.5.
C3_NoGamesRaises ==
    (NoMargins /\ pc \in {"returned", "ranked", "raised"}) =>
        results[Len(results)].kind = "EquilibriumError"

\* C3 as amended: for a non-empty team set in which no record has a
\* margin, power() does not raise: the first round gives every team 0.5,
\* the second round repeats it, and the call returns that map from the
\* second round of its first try (the initial powers drawn being more than
\* 1e-6 away from 0.5).
C3_NoGamesReturnsTie ==
    NoMargins =>
        /\ pc \notin {"exhausted", "raised"}
        /\ Kinds("returned")
        /\ \A i \in 1..Len(results) :
              MapIs(Get(results[i].power), SeqToSet(TeamsRecords.keys), Half)
        /\ Returned => (tries = 0 /\ round = 1 /\ rounds_run = 2)

\* C3 witness: a call on four teams without any margin has returned the
\* all-0.5 map.
C3_Witness ==
    /\ NoMargins
    /\ pc = "returned"
    /\ Len(TeamsRecords.keys) = 4
    /\ MapIs(new_teams_power, {"A", "B", "C", "D"}, Half)

\* What C4 says of a single state.
C4_Stopping ==
    /\ tries <= Tries /\ round <= Rounds /\ rounds_run <= Tries * Rounds
    /\ pc = "try" => (tries < Tries /\ rounds_run = tries * Rounds)
    /\ pc = "round" =>
          (tries < Tries /\ round < Rounds /\ rounds_run = tries * Rounds + round)
    /\ Returned =>
          /\ results[Len(results)].kind = "returned"
          /\ results[Len(results)].power = Some(new_teams_power)
          /\ \A t \in DOMAIN new_teams_power :
                Abs(teams_power[t] - new_teams_power[t]) < Unit \div InvTol
    /\ pc \in {"exhausted", "raised"} =>
          (tries = Tries /\ round = Rounds /\ rounds_run = Tries * Rounds)
    /\ pc = "raised" => results[Len(results)].kind = "EquilibriumError"
    /\ \A i \in 1..Len(results) : results[i].kind \in {"returned", "EquilibriumError"}

\* Every call has ended.
AllCallsEnded == Len(results) = MaxCalls /\ pc \in {"ranked", "raised"}

\* Steps the calls can still take, at most: every step of power() and of
\* its caller lowers it.
CallWeight == 2 * Tries * Rounds + 4
Variant ==
    LET running == pc \in {"try", "round", "exhausted"}
        started == Len(results) + (IF running THEN 1 ELSE 0)
        left == IF running
                THEN 2 * (Tries * Rounds - rounds_run) + (IF pc = "try" THEN 1 ELSE 0) + 1
                ELSE IF pc = "returned" THEN 1 ELSE 0
    IN  (MaxCalls - started) * CallWeight + left

\* A call that has not ended can take its next step: a round in progress
\* is a loop body without a blocking statement, the other steps are
\* enabled.
CanStep == pc = "round" \/ ENABLED (Call \/ StartTry \/ Raise \/ Rank)

C5_NormalizationInvariant ==
    \A i \in 1..Len(results) :
        results[i].kind = "returned" =>
            LET m == Get(results[i].power) IN
            /\ DOMAIN m = SeqToSet(TeamsRecords.keys)
            /\ Cardinality(DOMAIN m) = Len(TeamsRecords.keys)
            /\ Normalized(m)

\* C5 witness: power() has returned a map with a team at 1, a team at 0 and
\* teams strictly between.
C5_Witness ==
    /\ pc = "returned"
    /\ \E t, u, v \in DOMAIN new_teams_power :
          /\ new_teams_power[t] = One
          /\ new_teams_power[u] = 0
          /\ 0 < new_teams_power[v] /\ new_teams_power[v] < One
    /\ results[Len(results)].power = Some(new_teams_power)

\* C6 (determinism under a fixed seed): two calls of power() with the same
\* integer random_state, the same teams_records and the same mode end the
\* same way: both raise EquilibriumError, or both return equal maps, which
\* give equal rankings.
C6_Determinism ==
    (~IsNone(random_state) /\ Len(results) = 2 /\ pc \in {"ranked", "raised"}) =>
        results[1] = results[2]

\* C6 witness: the second of two seeded calls has returned, from its second
\* try, the map the first call returned, one with distinct powers.
C6_Witness ==
    /\ ~IsNone(random_state)
    /\ Len(results) = 2
    /\ pc = "ranked"
    /\ tries = 1
    /\ results[1] = results[2]
    /\ \E t, u \in DOMAIN new_teams_power :
          0 < new_teams_power[t] /\ new_teams_power[t] < new_teams_power[u]

----------------------------------------------------------------------------
(* Properties of the schedule specification *)

GameIdx == 1..Len(games)
TeamsInGames == {t \in TeamNames : \E i \in GameIdx : Plays(games[i], t)}
WeeksInGames == {games[i].week : i \in GameIdx}
HasGame(t, w) == \E i \in GameIdx : games[i].week = w /\ Plays(games[i], t)
IsMaxWeek(m) == m \in WeeksInGames /\ \A w \in WeeksInGames : w <= m

\* Margin of a side with points x against points y.
SideMargin(x, y) == IF IsNone(x) \/ IsNone(y) THEN None ELSE Some(Get(x) - Get(y))

\* The Game objects of a schedule for a week.
GamesOfWeek(sched, w) == {i \in 1..Len(sched) : sched[i].week = w}

\* C7 (schedule totality): the keys of the dict returned by
\* create_teams_records_dict are exactly the teams that are home or away in
\* some game, each once, and every such team has a record for every week of
\* 1..maxWeek, maxWeek being the largest week of any game; a week in which
\* the team has no game holds the bye placeholder (None, None).
C7_ScheduleTotality ==
    ~IsNone(teams_dict) =>
        LET d == Get(teams_dict) IN
        /\ SeqToSet(d.keys) = TeamsInGames
        /\ DOMAIN d.rec = TeamsInGames
        /\ Len(d.keys) = Cardinality(TeamsInGames)
        /\ \A t \in TeamsInGames : \A m \in WeeksInGames :
              IsMaxWeek(m) =>
                  /\ (1..m) \subseteq DOMAIN d.rec[t]
                  /\ \A w \in 1..m : ~HasGame(t, w) => d.rec[t][w] = <<None, None>>

\* C7 witness: the aggregator has returned a dict in which a team with a
\* game in one week has a bye placeholder in an earlier week and in the
\* season's last week.
C7_Witness ==
    /\ ~IsNone(teams_dict)
    /\ IsNone(cut_min)
    /\ \E t \in TeamsInGames : \E w1, w2, w3 \in 1..MaxWeek :
          /\ w1 < w2 /\ w2 < w3 /\ IsMaxWeek(w3)
          /\ ~HasGame(t, w1) /\ HasGame(t, w2) /\ ~HasGame(t, w3)
          /\ Get(teams_dict).rec[t][w1] = <<None, None>>
          /\ Get(teams_dict).rec[t][w3] = <<None, None>>

\* C8 (match record derivation): aggregating raises no error, and for every
\* raw game each side's record names the other side as opponent and has
\* margin own score minus opponent score, or None when either score of the
\* game is null; stated of the dict of create_teams_records_dict and of the
\* Game objects of Schedule.add_game, before any filter.
C8_MatchRecordDerivation ==
    /\ IsNone(dict_error)
    /\ (~IsNone(teams_dict) /\ IsNone(cut_min)) =>
          \A i \in GameIdx :
              LET g == games[i] IN
              /\ Get(teams_dict).rec[g.home_team][g.week] =
                    <<Some(g.away_team), SideMargin(g.home_points, g.away_points)>>
              /\ Get(teams_dict).rec[g.away_team][g.week] =
                    <<Some(g.home_team), SideMargin(g.away_points, g.home_points)>>
    /\ (filled /\ IsNone(sched_cut_min)) =>
          \A i \in GameIdx :
              LET g == games[i] IN
              /\ \E k \in GamesOfWeek(teams[g.home_team], g.week) :
                    /\ teams[g.home_team][k].opponent = g.away_team
                    /\ Margin(teams[g.home_team][k]) =
                          SideMargin(g.home_points, g.away_points)
              /\ \E k \in GamesOfWeek(teams[g.away_team], g.week) :
                    /\ teams[g.away_team][k].opponent = g.home_team
                    /\ Margin(teams[g.away_team][k]) =
                          SideMargin(g.away_points, g.home_points)

\* C9 (week filter): after filtering to a cutoff, every record of a later
\* week has margin None and the opponent it had before, and every record of
\* a week up to the cutoff is unchanged; stated of filter_week on the dict
\* and of filter_schedules on the Game objects, w being the smallest cutoff
\* used.
C9_WeekFilter ==
    /\ (~IsNone(teams_dict) /\ ~IsNone(cut_min)) =>
          LET d == Get(teams_dict)
              orig == TeamsRecordsDict(games)
          IN  \A t \in DOMAIN orig.rec : \A w \in DOMAIN orig.rec[t] :
                  IF w > Get(cut_min)
                  THEN /\ IsNone(d.rec[t][w][2])
                       /\ d.rec[t][w][1] = orig.rec[t][w][1]
                  ELSE d.rec[t][w] = orig.rec[t][w]
    /\ (filled /\ ~IsNone(sched_cut_min)) =>
          LET orig == FillSchedulesLoop(TeamsInstances, games, Len(games))
          IN  \A t \in DOMAIN orig : \A k \in 1..Len(orig[t]) :
                  IF orig[t][k].week > Get(sched_cut_min)
                  THEN /\ IsNone(Margin(teams[t][k]))
                       /\ teams[t][k].opponent = orig[t][k].opponent
                       /\ teams[t][k].week = orig[t][k].week
                  ELSE teams[t][k] = orig[t][k]

\* C10 (filter idempotence and composition): whatever filters were applied,
\* the schedule equals the unfiltered schedule filtered once to the smallest
\* cutoff used; and from any such schedule, filtering to w1 and then to
\* w2 <= w1 equals filtering once to w2, and filtering to w2 and then to
\* w1 >= w2 equals filtering once to w2.  Stated of filter_week and of
\* filter_schedules.
C10_FilterComposition ==
    /\ ~IsNone(teams_dict) =>
          LET s == Get(teams_dict) IN
          /\ ~IsNone(cut_min) =>
                s = FilterWeekDict(TeamsRecordsDict(games), Get(cut_min))
          /\ \A w1, w2 \in Cutoffs :
                w2 <= w1 =>
                    /\ FilterWeekDict(FilterWeekDict(s, w1), w2) = FilterWeekDict(s, w2)
                    /\ FilterWeekDict(FilterWeekDict(s, w2), w1) = FilterWeekDict(s, w2)
    /\ filled =>
          /\ ~IsNone(sched_cut_min) =>
                teams = FilterSchedulesAll(
                            FillSchedulesLoop(TeamsInstances, games, Len(games)),
                            Get(sched_cut_min))
          /\ \A w1, w2 \in Cutoffs :
                w2 <= w1 =>
                    /\ FilterSchedulesAll(FilterSchedulesAll(teams, w1), w2) =
                          FilterSchedulesAll(teams, w2)
                    /\ FilterSchedulesAll(FilterSchedulesAll(teams, w2), w1) =
                          FilterSchedulesAll(teams, w2)

\* C10 witness: a filter to a larger cutoff ran after a filter to a smaller
\* one, in both packages, and a margin that was decided in a week between
\* the two cutoffs is still erased.
C10_Witness ==
    /\ ~IsNone(teams_dict) /\ ~IsNone(cut_min) /\ Get(cut_min) < Get(cut_last)
    /\ filled /\ ~IsNone(sched_cut_min) /\ Get(sched_cut_min) < Get(sched_cut_last)
    /\ \E t \in TeamsInGames : \E w \in 1..MaxWeek :
          /\ Get(cut_min) < w /\ w <= Get(cut_last)
          /\ Get(sched_cut_min) < w /\ w <= Get(sched_cut_last)
          /\ w \in DOMAIN Get(teams_dict).rec[t]
          /\ ~IsNone(TeamsRecordsDict(games).rec[t][w][2])
          /\ IsNone(Get(teams_dict).rec[t][w][2])
          /\ \E k \in GamesOfWeek(teams[t], w) : IsNone(Margin(teams[t][k]))

----------------------------------------------------------------------------
(* Properties of the assembled ranking *)

\* The place of a team in the team mapping passed to power().
KeyIndex(name) ==
    CHOOSE k \in 1..Len(TeamsRecords.keys) : TeamsRecords.keys[k] = name

\* C11 (ranking order): the ranking assembled from a returned map lists
\* every team exactly once, in non-increasing order of power, and teams of
\* equal power keep the order they have in the team mapping.
C11_RankingOrder ==
    \A i \in 1..Len(results) :
        ~IsNone(results[i].ranking) =>
            LET r == Get(results[i].ranking)
                m == Get(results[i].power)
            IN  /\ Len(r) = Len(TeamsRecords.keys)
                /\ SeqToSet(r) = SeqToSet(TeamsRecords.keys)
                /\ \A j, k \in 1..Len(r) :
                      j < k =>
                          /\ m[r[j]] >= m[r[k]]
                          /\ m[r[j]] = m[r[k]] => KeyIndex(r[j]) < KeyIndex(r[k])

----------------------------------------------------------------------------
(* The direct specification: power() is called on a teams_records mapping  *)
(* that its caller built by hand, so a record's opponent need not be one   *)
(* of the mapping's teams.                                                 *)

\* (rival, balance) records of a one-week mapping of the teams A and B.
DirectMargins == {None, Some(2), Some(0), Some(-2)}
DirectRecords(rivals) == {<<r, m>> : r \in rivals, m \in DirectMargins}

DirectDicts ==
    { [keys |-> <<"A", "B">>, rec |-> [A |-> <<ra>>, B |-> <<rb>>]] :
        ra \in DirectRecords({None, Some("B"), Some("C")}),
        rb \in DirectRecords({None, Some("A"), Some("C")}) }

InitDirect ==
    /\ games = <<>>
    /\ teams_dict \in {Some(d) : d \in DirectDicts}
    /\ cut_min = None
    /\ cut_last = None
    /\ dict_error = None
    /\ teams = TeamsInstances
    /\ filled = FALSE
    /\ sched_cut_min = None
    /\ sched_cut_last = None
    /\ score \in BOOLEAN
    /\ random_state \in {Some(k) : k \in Seeds}
    /\ rnd = None
    /\ pc = "idle"
    /\ tries = 0
    /\ round = 0
    /\ teams_power = <<>>
    /\ new_teams_power = <<>>
    /\ rounds_run = 0
    /\ results = <<>>
    /\ RankIdle
    /\ AppIdle
    /\ MergeIdle

SpecDirect == InitDirect /\ [][NextPower]_vars

\* The records of a team with every record whose opponent has no power
\* lookup (a bye, or a team outside the mapping) counted as not played.
KnownRecords(records, power_map) ==
    [w \in DOMAIN records |->
        IF IsNone(records[w][1]) \/ Get(records[w][1]) \notin DOMAIN power_map
        THEN <<records[w][1], None>>
        ELSE records[w]]

KnownDict(records_dict, power_map) ==
    [records_dict EXCEPT !.rec =
        [name \in DOMAIN records_dict.rec |->
            KnownRecords(records_dict.rec[name], power_map)]]

\* C12 (opponents without a power lookup): a round raises no KeyError, and
\* the map it computes is the one computed from the records whose opponent
\* is a team of the mapping: a bye or an opponent outside the mapping adds
\* nothing, whatever its margin.
C12_MissingOpponents ==
    [][pc = "round" =>
          /\ Len(results') > Len(results) =>
                results'[Len(results')].kind \in {"returned", "EquilibriumError"}
          /\ new_teams_power' =
                Norm(Relax(KnownDict(TeamsRecords, teams_power), teams_power, score))]_vars

----------------------------------------------------------------------------
(* college_football_rankings.Team: wins, draws, losses *)

\* The games of a schedule whose margin is positive (sign 1), zero (sign 0)
\* or negative (sign -1).
MarginGames(sched, sign) ==
    {i \in 1..Len(sched) :
        /\ ~IsNone(Margin(sched[i]))
        /\ LET m == Get(Margin(sched[i])) IN
           (IF m > 0 THEN 1 ELSE IF m < 0 THEN -1 ELSE 0) = sign}

\* Draws counted as wins: margin >= 0.
WinsWithDraws(sched) ==
    Cardinality(MarginGames(sched, 1) \cup MarginGames(sched, 0))

\* Team.wins
Wins(sched) == Cardinality(MarginGames(sched, 1))

\* Team.draws
Draws(sched) == Cardinality(MarginGames(sched, 0))

\* Team.losses
Losses(sched) == Cardinality(MarginGames(sched, -1))

\* The raw games of a team with both scores reported that no filter_score
\* so far has erased.
DecidedGames(t) ==
    {i \in GameIdx :
        /\ Plays(games[i], t)
        /\ ~IsNone(games[i].home_points) /\ ~IsNone(games[i].away_points)
        /\ (IsNone(sched_cut_min) \/ games[i].week <= Get(sched_cut_min))}

\* The points of a team in a raw game minus the points of the other side.
RawMargin(g, t) ==
    IF g.home_team = t
    THEN Get(g.home_points) - Get(g.away_points)
    ELSE Get(g.away_points) - Get(g.home_points)

\* C13 (win/loss record consistency): once the schedules are filled, and
\* after any filter_score, a team's wins, draws and losses are the numbers
\* of its decided games, not erased by a filter, that it won, drew and
\* lost; together they are the number of its games with a margin, so that
\* wins + losses never exceeds it, and a team without a decided game has
\* wins = losses = 0.
C13_RecordConsistency ==
    filled =>
        \A t \in TeamNames :
            LET sched == teams[t]
                decided == DecidedGames(t)
                with_margin == {i \in 1..Len(sched) : ~IsNone(Margin(sched[i]))}
            IN  /\ Wins(sched) = Cardinality({i \in decided : RawMargin(games[i], t) > 0})
                /\ Draws(sched) = Cardinality({i \in decided : RawMargin(games[i], t) = 0})
                /\ Losses(sched) = Cardinality({i \in decided : RawMargin(games[i], t) < 0})
                /\ Wins(sched) + Draws(sched) + Losses(sched) = Cardinality(with_margin)
                /\ Wins(sched) + Losses(sched) <= Cardinality(with_margin)
                /\ decided = {} => (Wins(sched) = 0 /\ Losses(sched) = 0)

\* C13 witness: after a filter, a team has a win that counts and a game
\* whose score the filter erased, and the team it beat has the loss.
C13_Witness ==
    /\ filled
    /\ ~IsNone(sched_cut_min)
    /\ \E t, u \in TeamNames :
          /\ Wins(teams[t]) = 1
          /\ \E i \in GameIdx :
                /\ Plays(games[i], t)
                /\ ~IsNone(games[i].home_points) /\ ~IsNone(games[i].away_points)
                /\ games[i].week > Get(sched_cut_min)
          /\ Len(teams[t]) = 2
          /\ Losses(teams[u]) = 1

----------------------------------------------------------------------------
(* college_football_rankings.Ranking and ui.schedule.get_team_position.    *)
(* Lists are objects: the heap maps a reference to the list's content, so  *)
(* that two holders of one reference see each other's changes.             *)

\* List objects a run may create.
MaxObjects == 3

RankWeeks == {1, 2}
\* The lists a caller builds; "C" is a team that no list ranks.
CallerLists == {<<"A">>, <<"A", "B">>, <<"B", "A", "B">>}
QueryTeams == {"A", "B", "C"}

\* What a call gave its caller: a value, or an exception.
Return(val) == [raised |-> None, val |-> val]
Raised(exc) == [raised |-> Some(exc), val |-> None]

\* list.index(x): the first place of x, counted from 0, or ValueError.
ListIndex(list, x) ==
    IF x \in SeqToSet(list)
    THEN Return(Some((CHOOSE i \in 1..Len(list) :
                         list[i] = x /\ \A j \in 1..(i - 1) : list[j] # x) - 1))
    ELSE Raised("ValueError")

\* week in self._rankings
HasWeek(week) == week \in SeqToSet(ranking_weeks.keys)

\* self._rankings[week]
StoredList(week) == heap[ranking_weeks.ref[week]]

\* self._rankings[week] without the test for the week: KeyError.
GetWeekUnguarded(week) ==
    IF ~HasWeek(week) THEN Raised("KeyError") ELSE Return(Some(StoredList(week)))

\* Ranking.get_week
GetWeek(week) ==
    IF ~HasWeek(week) THEN Return(Some(<<>>)) ELSE Return(Some(StoredList(week)))

\* index(team) without the + 1.
TeamPositionZeroBased(team, week) ==
    IF ~HasWeek(week) THEN Return(None)
    ELSE IF team \notin SeqToSet(StoredList(week)) THEN Return(None)
    ELSE ListIndex(StoredList(week), team)

\* Ranking.team_position
TeamPosition(team, week) ==
    IF ~HasWeek(week) THEN Return(None)
    ELSE IF team \notin SeqToSet(StoredList(week)) THEN Return(None)
    ELSE LET ix == ListIndex(StoredList(week), team) IN
         IF IsNone(ix.raised) THEN Return(Some(Get(ix.val) + 1)) ELSE ix

\* Ranking.team_history: one team_position per key of self._rankings.
TeamHistory(team) ==
    LET keys == ranking_weeks.keys
        calls == [k \in 1..Len(keys) |-> TeamPosition(team, keys[k])]
        bad == {k \in 1..Len(keys) : ~IsNone(calls[k].raised)}
    IN  IF bad # {}
        THEN calls[CHOOSE k \in bad : \A j \in bad : k <= j]
        ELSE Return(Some([k \in 1..Len(keys) |-> calls[k].val]))

\* ui.schedule.get_team_position
GetTeamPosition(team, ranking) ==
    IF team \notin SeqToSet(ranking) THEN Return(None)
    ELSE LET ix == ListIndex(ranking, team) IN
         IF IsNone(ix.raised) THEN Return(Some(Get(ix.val) + 1)) ELSE ix

\* What ret holds after a query.
Query(op, team, week, ref, out) ==
    Some([op |-> op, team |-> team, week |-> week, ref |-> ref,
          raised |-> out.raised, val |-> out.val])

Reverse(s) == [i \in 1..Len(s) |-> s[Len(s) + 1 - i]]

SchedIdle ==
    /\ games = <<>>
    /\ teams_dict = None
    /\ dict_error = None
    /\ cut_min = None
    /\ cut_last = None
    /\ teams = TeamsInstances
    /\ filled = FALSE
    /\ sched_cut_min = None
    /\ sched_cut_last = None

InitRanking == SchedIdle /\ PowerIdle /\ AppIdle /\ MergeIdle /\ RankIdle

\* The caller builds a list.
NewList(list) ==
    /\ Len(heap) < MaxObjects
    /\ heap' = Append(heap, list)
    /\ held' = held \cup {Len(heap) + 1}
    /\ ret' = None
    /\ UNCHANGED ranking_weeks
    /\ UNCHANGED <<sched_vars, power_vars, app_vars, merge_vars>>

\* Ranking.add_week(week, rankings): self._rankings[week] = list(rankings)
AddWeek(week, r) ==
    /\ r \in held
    /\ Len(heap) < MaxObjects
    /\ heap' = Append(heap, heap[r])
    /\ ranking_weeks' =
          [keys |-> IF HasWeek(week) THEN ranking_weeks.keys
                    ELSE Append(ranking_weeks.keys, week),
           ref |-> [w \in SeqToSet(ranking_weeks.keys) \cup {week} |->
                       IF w = week THEN Len(heap) + 1 ELSE ranking_weeks.ref[w]]]
    /\ ret' = None
    /\ UNCHANGED held
    /\ UNCHANGED <<sched_vars, power_vars, app_vars, merge_vars>>

\* The caller changes a list it holds: reverse() or clear().
CallerMutates(r) ==
    /\ r \in held
    /\ \E new \in {Reverse(heap[r]), <<>>} :
          /\ new # heap[r]
          /\ heap' = [heap EXCEPT ![r] = new]
    /\ ret' = None
    /\ UNCHANGED <<ranking_weeks, held>>
    /\ UNCHANGED <<sched_vars, power_vars, app_vars, merge_vars>>

\* ranking.get_week(week): the caller now holds what was returned.
CallGetWeek(week) ==
    /\ ret' = Query("get_week", None, Some(week), None, GetWeek(week))
    /\ held' = IF HasWeek(week) THEN held \cup {ranking_weeks.ref[week]} ELSE held
    /\ UNCHANGED <<heap, ranking_weeks>>
    /\ UNCHANGED <<sched_vars, power_vars, app_vars, merge_vars>>

CallTeamPosition(team, week) ==
    /\ ret' = Query("team_position", Some(team), Some(week), None, TeamPosition(team, week))
    /\ UNCHANGED <<heap, ranking_weeks, held>>
    /\ UNCHANGED <<sched_vars, power_vars, app_vars, merge_vars>>

CallTeamHistory(team) ==
    /\ ret' = Query("team_history", Some(team), None, None, TeamHistory(team))
    /\ UNCHANGED <<heap, ranking_weeks, held>>
    /\ UNCHANGED <<sched_vars, power_vars, app_vars, merge_vars>>

\* get_team_position(team, ranking) on a list the caller holds.
CallGetTeamPosition(team, r) ==
    /\ r \in held
    /\ ret' = Query("get_team_position", Some(team), None, Some(r),
                    GetTeamPosition(team, heap[r]))
    /\ UNCHANGED <<heap, ranking_weeks, held>>
    /\ UNCHANGED <<sched_vars, power_vars, app_vars, merge_vars>>

NextRanking ==
    \/ \E list \in CallerLists : NewList(list)
    \/ \E week \in RankWeeks, r \in 1..MaxObjects : AddWeek(week, r)
    \/ \E r \in 1..MaxObjects : CallerMutates(r)
    \/ \E week \in RankWeeks : CallGetWeek(week)
    \/ \E team \in QueryTeams, week \in RankWeeks : CallTeamPosition(team, week)
    \/ \E team \in QueryTeams : CallTeamHistory(team)
    \/ \E team \in QueryTeams, r \in 1..MaxObjects : CallGetTeamPosition(team, r)

SpecRanking == InitRanking /\ [][NextRanking]_vars

----------------------------------------------------------------------------
(* Properties of the Ranking specification *)

Asked(op) == ~IsNone(ret) /\ Get(ret).op = op

\* C14 (missing-data lookups never raise): no query raises; get_week of a
\* week that was never added returns the empty list; team_position returns
\* None for a week that was never added and for a team that is not in the
\* week's list; get_team_position returns None for a team that is not in
\* the list.
C14_MissingLookups ==
    ~IsNone(ret) =>
        LET q == Get(ret) IN
        /\ IsNone(q.raised)
        /\ (q.op = "get_week" /\ ~HasWeek(Get(q.week))) => q.val = Some(<<>>)
        /\ (q.op = "team_position" /\ ~HasWeek(Get(q.week))) => IsNone(q.val)
        /\ (/\ q.op = "team_position"
            /\ HasWeek(Get(q.week))
            /\ Get(q.team) \notin SeqToSet(StoredList(Get(q.week)))) => IsNone(q.val)
        /\ (/\ q.op = "get_team_position"
            /\ Get(q.team) \notin SeqToSet(heap[Get(q.ref)])) => IsNone(q.val)

\* C14 witness: team_position was asked for a team that the stored list of
\* the week does not rank, and answered None; another week was never added.
C14_Witness ==
    /\ Asked("team_position")
    /\ HasWeek(Get(Get(ret).week))
    /\ StoredList(Get(Get(ret).week)) # <<>>
    /\ Get(Get(ret).team) \notin SeqToSet(StoredList(Get(Get(ret).week)))
    /\ IsNone(Get(ret).val)
    /\ IsNone(Get(ret).raised)
    /\ \E w \in RankWeeks : ~HasWeek(w)

\* C16 (stored rankings are immutable): as long as no add_week stores the
\* week again, the list stored for a week stays what it was when it was
\* stored, whatever is done next: queries, add_week of other weeks,
\* changes by the caller to the list it passed in or to a list that
\* get_week returned.
C16_StoredImmutable ==
    [][\A w \in SeqToSet(ranking_weeks.keys) :
          ranking_weeks'.ref[w] = ranking_weeks.ref[w] =>
              heap'[ranking_weeks'.ref[w]] = heap[ranking_weeks.ref[w]]]_vars

\* The place of a team in a list, counted from 1: the first one.
FirstPlace(list, team, p) ==
    /\ p \in 1..Len(list)
    /\ list[p] = team
    /\ \A j \in 1..(p - 1) : list[j] # team

\* The position team_position is to give for a stored week.
PositionIs(val, team, week) ==
    IF HasWeek(week) /\ team \in SeqToSet(StoredList(week))
    THEN ~IsNone(val) /\ Get(val) >= 1 /\ FirstPlace(StoredList(week), team, Get(val))
    ELSE IsNone(val)

\* C17 (team position and history): team_position is the place of the team
\* in the week's stored list counted from 1, so the first team of the list
\* has position 1 and no team has position 0; team_history has one entry
\* per stored week, in the order of the keys of the mapping (the order in
\* which the weeks were first added), each the team's position of that week
\* or None.
C17_PositionAndHistory ==
    ~IsNone(ret) =>
        LET q == Get(ret) IN
        /\ q.op = "team_position" =>
              /\ IsNone(q.raised)
              /\ PositionIs(q.val, Get(q.team), Get(q.week))
              /\ (/\ HasWeek(Get(q.week))
                  /\ StoredList(Get(q.week)) # <<>>
                  /\ StoredList(Get(q.week))[1] = Get(q.team)) => q.val = Some(1)
        /\ q.op = "team_history" =>
              /\ IsNone(q.raised)
              /\ Len(Get(q.val)) = Len(ranking_weeks.keys)
              /\ Cardinality(SeqToSet(ranking_weeks.keys)) = Len(ranking_weeks.keys)
              /\ \A k \in 1..Len(ranking_weeks.keys) :
                    PositionIs(Get(q.val)[k], Get(q.team), ranking_weeks.keys[k])

\* C17 witness: the history of B over two weeks, added as week 2 and then
\* week 1: second of week 2's list, unranked in week 1's empty list.
C17_Witness ==
    /\ Asked("team_history")
    /\ Get(ret).team = Some("B")
    /\ ranking_weeks.keys = <<2, 1>>
    /\ StoredList(2) = <<"A", "B">>
    /\ StoredList(1) = <<>>
    /\ Get(ret).val = Some(<<Some(2), None>>)

----------------------------------------------------------------------------
(* college_football_rankings.last_played_week *)

SeasonTypes == {"regular", "postseason"}

\* "regular" in game.season_type
IsRegular(season_type) == season_type = "regular"

\* One pass of the loop without the test for an unplayed game.
WeekStepNoSkip(acc, game) ==
    IF IsRegular(game.season_type)
    THEN [acc EXCEPT !.last_regular_week = Max2(@, game.week)]
    ELSE [acc EXCEPT !.last_off_season_week = Max2(@, game.week)]

\* One pass of the loop over the games.
WeekStep(acc, game) ==
    IF IsNone(game.home_points) THEN acc
    ELSE IF IsRegular(game.season_type)
    THEN [acc EXCEPT !.last_regular_week =
             IF game.week > @ THEN game.week ELSE @]
    ELSE [acc EXCEPT !.last_off_season_week =
             IF game.week > @ THEN game.week ELSE @]

RECURSIVE WeekLoop(_, _)
WeekLoop(gs, n) ==
    IF n = 0 THEN [last_regular_week |-> 0, last_off_season_week |-> 0]
    ELSE WeekStep(WeekLoop(gs, n - 1), gs[n])

\* last_played_week(games)
LastPlayedWeek(gs) ==
    LET acc == WeekLoop(gs, Len(gs)) IN
    acc.last_regular_week + acc.last_off_season_week

\* The games last_played_week is called with: regular and postseason
\* games between A and B, played, unplayed or half-reported, in any order.
WeekGames ==
    { RawGame(w, st, "A", "B", s[1], s[2]) :
        w \in 1..MaxWeek, st \in SeasonTypes,
        s \in {<<None, None>>, <<Some(1), Some(0)>>, <<Some(1), None>>, <<None, Some(1)>>} }

WeekGameLists == UNION { [1..n -> WeekGames] : n \in 0..(MaxGames + 1) }

InitWeeks ==
    /\ games \in WeekGameLists
    /\ teams_dict = None
    /\ dict_error = None
    /\ cut_min = None
    /\ cut_last = None
    /\ teams = TeamsInstances
    /\ filled = FALSE
    /\ sched_cut_min = None
    /\ sched_cut_last = None
    /\ PowerIdle
    /\ RankIdle
    /\ AppIdle
    /\ MergeIdle

CallLastPlayedWeek ==
    /\ IsNone(ret)
    /\ ret' = Query("last_played_week", None, None, None,
                    Return(Some(LastPlayedWeek(games))))
    /\ UNCHANGED <<heap, ranking_weeks, held>>
    /\ UNCHANGED <<sched_vars, power_vars, app_vars, merge_vars>>

NextWeeks == CallLastPlayedWeek

SpecWeeks == InitWeeks /\ [][NextWeeks]_vars

\* The largest week of a set of games, 0 for no game.
LargestWeek(S) == SetMax({g.week : g \in S} \cup {0})

\* C18 (last played week): last_played_week ignores every game whose home
\* score is null and returns the largest week of the other regular-season
\* games plus the largest week of the other non-regular games, each 0 when
\* there is none: a function of the set of games, not of their order.
C18_LastPlayedWeek ==
    Asked("last_played_week") =>
        LET played == {g \in SeqToSet(games) : ~IsNone(g.home_points)}
            regular == {g \in played : g.season_type = "regular"}
            other == {g \in played : g.season_type # "regular"}
        IN  /\ IsNone(Get(ret).raised)
            /\ Get(ret).val = Some(LargestWeek(regular) + LargestWeek(other))

\* C18 witness: the answer is 3 for a regular game of week 2 and a
\* postseason game of week 1, both played, listed after an unplayed regular
\* game of week 3.
C18_Witness ==
    /\ Asked("last_played_week")
    /\ Get(ret).val = Some(3)
    /\ Len(games) = 3
    /\ games[1].week = 3 /\ games[1].season_type = "regular" /\ IsNone(games[1].home_points)
    /\ games[2].week = 1 /\ games[2].season_type = "postseason" /\ ~IsNone(games[2].home_points)
    /\ games[3].week = 2 /\ games[3].season_type = "regular" /\ ~IsNone(games[3].home_points)

----------------------------------------------------------------------------
(* Properties of the relaxation step *)

Sign(m) == IF m > 0 THEN 1 ELSE IF m < 0 THEN -1 ELSE 0

\* What the records of weeks 1..n are to add to a team's new power, with
\* opponent powers taken from the map of the previous round.
RECURSIVE ExpectedSum(_, _, _, _)
ExpectedSum(records, n, previous, aware) ==
    IF n = 0 THEN 0
    ELSE LET rival == records[n][1]
             margin == records[n][2]
             m == IF aware THEN Get(margin) ELSE Sign(Get(margin))
             term == IF IsNone(margin) THEN 0
                     ELSE IF m > 0 THEN previous[Get(rival)] * m
                     ELSE (One - previous[Get(rival)]) * m
         IN  term + ExpectedSum(records, n - 1, previous, aware)

ExpectedPower(previous) ==
    [name \in DOMAIN previous |->
        ExpectedSum(TeamsRecords.rec[name], Len(TeamsRecords.rec[name]), previous, score)]

\* The orders in which the teams can be visited.
VisitOrders ==
    LET keys == TeamsRecords.keys IN
    {[i \in 1..Len(keys) |-> keys[perm[i]]] : perm \in Permutations(1..Len(keys))}

\* C19 (relaxation step): in every round the new unnormalized power of a
\* team is the sum over its records with a margin of opponentPower * m for
\* m > 0 and (1 - opponentPower) * m for m <= 0, m being the margin or, in
\* margin-unaware mode, its sign; opponentPower is the power of the
\* previous round, so visiting the teams in any order gives the same map,
\* and the map the round adopts is that map normalized.
C19_RelaxationStep ==
    /\ [](pc = "round" =>
            /\ Relax(TeamsRecords, teams_power, score) = ExpectedPower(teams_power)
            /\ \A order \in VisitOrders :
                  RelaxLoop(TeamsRecords, order, Len(order), teams_power,
                            teams_power, score) = ExpectedPower(teams_power))
    /\ [][pc = "round" => new_teams_power' = Norm(ExpectedPower(teams_power))]_vars

\* C19 witness: a round of margin-aware mode on four teams with distinct
\* powers strictly between 0 and 1, a win by more than 1 and a loss by more
\* than 1 among the records.
C19_Witness ==
    /\ pc = "round"
    /\ round >= 2
    /\ score
    /\ Len(TeamsRecords.keys) = 4
    /\ \E t, u \in DOMAIN teams_power :
          /\ 0 < teams_power[t] /\ teams_power[t] < teams_power[u]
          /\ teams_power[u] < One
    /\ \E t, u \in DOMAIN teams_power : \E w, x \in DOMAIN TeamsRecords.rec[t] :
          /\ ~IsNone(TeamsRecords.rec[t][w][2]) /\ Get(TeamsRecords.rec[t][w][2]) > 1
          /\ ~IsNone(TeamsRecords.rec[u][x][2]) /\ Get(TeamsRecords.rec[u][x][2]) < -1

----------------------------------------------------------------------------
(* app: all_weeks_margins and the per-week evaluation loop *)

\* cfr.filter_week(teams_margins=..., week=i) as the app calls it: the margin
\* of every record after the cutoff becomes None, the opponent stays.
FilterWeekMargins(d, week) ==
    [d EXCEPT !.rec = [t \in DOMAIN d.rec |->
        [w \in DOMAIN d.rec[t] |->
            IF w > week THEN <<d.rec[t][w][1], None>> ELSE d.rec[t][w]]]]

\* cfr.create_teams_margins_dict: a new dict of the (opponent, margin)
\* records of every team, sharing nothing with the schedule it is built from.
CreateTeamsMarginsDict(d) ==
    [keys |-> d.keys,
     rec |-> [t \in DOMAIN d.rec |->
                 [w \in DOMAIN d.rec[t] |-> <<d.rec[t][w][1], d.rec[t][w][2]>>]]]

\* The object the filtering loop writes to, were it the argument itself.
SameObject(d) == [shared |-> TRUE, dict |-> d]

\* copy.deepcopy(teams_schedules): an object of its own with equal content.
DeepCopy(d) == [shared |-> FALSE, dict |-> d]

\* range(1, week + 1): the cutoffs in ascending order.
WeekRangeAscending(week) == [k \in 1..week |-> k]

\* range(week, 0, -1): the cutoffs the loop visits, in order.
WeekRange(week) == [k \in 1..week |-> week + 1 - k]

\* all_weeks_margins(teams_schedules, week) is called.
AllWeeksMargins(week) ==
    /\ app_pc = "idle"
    /\ app_pc' = "margins"
    /\ n_weeks' = week
    /\ week_i' = 0
    /\ team_schedules_copy' = Some(DeepCopy(Get(teams_dict)))
    /\ margins' = <<>>
    /\ UNCHANGED rankings
    /\ UNCHANGED <<sched_vars, power_vars, rank_vars, merge_vars>>

\* One pass of the loop: filter the copy in place, append its margins.
AllWeeksMarginsStep ==
    /\ app_pc = "margins"
    /\ week_i < Len(WeekRange(n_weeks))
    /\ LET i == WeekRange(n_weeks)[week_i + 1]
           obj == Get(team_schedules_copy)
           filtered == FilterWeekMargins(obj.dict, i)
       IN  /\ team_schedules_copy' = Some([obj EXCEPT !.dict = filtered])
           /\ teams_dict' = IF obj.shared THEN Some(filtered) ELSE teams_dict
           /\ margins' = Append(margins, CreateTeamsMarginsDict(filtered))
    /\ week_i' = week_i + 1
    /\ UNCHANGED <<app_pc, n_weeks, rankings>>
    /\ UNCHANGED <<games, dict_error, cut_min, cut_last, teams, filled,
                   sched_cut_min, sched_cut_last>>
    /\ UNCHANGED <<power_vars, rank_vars, merge_vars>>

\* return list(reversed(margins)); main goes on to evaluate(margins, ...).
AllWeeksMarginsReturn ==
    /\ app_pc = "margins"
    /\ week_i = Len(WeekRange(n_weeks))
    /\ margins' = Reverse(margins)
    /\ app_pc' = "evaluate"
    /\ week_i' = 0
    /\ UNCHANGED <<n_weeks, team_schedules_copy, rankings>>
    /\ UNCHANGED <<sched_vars, power_vars, rank_vars, merge_vars>>

\* The name argument main passes with each score setting.
SourceName(consider_score) ==
    IF consider_score THEN "Margin Aware Algorithm" ELSE "Margin Unaware Algorithm"

\* The key of the item of index i (0-based, as enumerate gives it), had the
\* loop used the index itself.
WeekKeyZeroBased(i) == i

\* The key the loop stores the item of index i under.
WeekKey(i) == i + 1

\* An except clause that catches nothing.
CatchesNothing(kind) == FALSE

\* except cfr.iterative.EquilibriumError
Catches(kind) == kind = "EquilibriumError"

\* rankings.update({key: val})
DictUpdate(d, key, val) ==
    [k \in DOMAIN d \cup {key} |-> IF k = key THEN val ELSE d[k]]

\* The loop of evaluate takes the next item and calls cfr.evaluate on it,
\* which calls power().
EvaluateWeek ==
    /\ app_pc = "evaluate"
    /\ week_i < Len(margins)
    /\ app_pc' = "solving"
    /\ \E r \in RandomStates(random_state) : rnd' = Some(r)
    /\ pc' = "try"
    /\ tries' = 0
    /\ round' = 0
    /\ teams_power' = <<>>
    /\ new_teams_power' = <<>>
    /\ rounds_run' = 0
    /\ UNCHANGED <<score, random_state, results>>
    /\ UNCHANGED <<n_weeks, week_i, team_schedules_copy, margins, rankings>>
    /\ UNCHANGED <<sched_vars, rank_vars, merge_vars>>

\* cfr.evaluate has ended: its ranking is stored under the week's key, an
\* exception the except clause catches is passed over, any other escapes.
EvaluateStore ==
    /\ app_pc = "solving"
    /\ pc \in {"ranked", "raised"}
    /\ LET out == results[Len(results)] IN
       IF out.kind = "returned"
       THEN /\ rankings' = DictUpdate(rankings, WeekKey(week_i),
                               [name |-> SourceName(score),
                                ranking |-> Get(out.ranking)])
            /\ week_i' = week_i + 1
            /\ app_pc' = "evaluate"
       ELSE IF Catches(out.kind)
       THEN /\ week_i' = week_i + 1
            /\ app_pc' = "evaluate"
            /\ UNCHANGED rankings
       ELSE /\ app_pc' = "error"
            /\ UNCHANGED <<week_i, rankings>>
    /\ UNCHANGED <<n_weeks, team_schedules_copy, margins>>
    /\ UNCHANGED <<sched_vars, power_vars, rank_vars, merge_vars>>

\* return rankings
EvaluateReturn ==
    /\ app_pc = "evaluate"
    /\ week_i = Len(margins)
    /\ app_pc' = "done"
    /\ UNCHANGED <<n_weeks, week_i, team_schedules_copy, margins, rankings>>
    /\ UNCHANGED <<sched_vars, power_vars, rank_vars, merge_vars>>

\* main: the schedule dict of the season filtered to the selected week, and
\* the solver arguments of one of the two evaluate calls.
InitApp ==
    /\ games \in ScenarioGames
    /\ \E week \in 1..MaxWeek :
          /\ teams_dict = Some(FilterWeekMargins(TeamsRecordsDict(games), week))
          /\ cut_min = Some(week)
          /\ cut_last = Some(week)
    /\ dict_error = None
    /\ teams = TeamsInstances
    /\ filled = FALSE
    /\ sched_cut_min = None
    /\ sched_cut_last = None
    /\ score \in BOOLEAN
    /\ random_state = None
    /\ rnd = None
    /\ pc = "idle"
    /\ tries = 0
    /\ round = 0
    /\ teams_power = <<>>
    /\ new_teams_power = <<>>
    /\ rounds_run = 0
    /\ results = <<>>
    /\ RankIdle
    /\ AppIdle
    /\ MergeIdle

NextApp ==
    \/ \E week \in 1..MaxWeek : AllWeeksMargins(week)
    \/ AllWeeksMarginsStep
    \/ AllWeeksMarginsReturn
    \/ EvaluateWeek
    \/ StartTry
    \/ Round
    \/ Raise
    \/ Rank
    \/ EvaluateStore
    \/ EvaluateReturn

SpecApp == InitApp /\ [][NextApp]_vars

----------------------------------------------------------------------------
(* Properties of all_weeks_margins *)

\* m holds the records of s with the margins after week i erased and
\* everything else as s has it.
FilteredOnItsOwn(m, s, i) ==
    /\ m.keys = s.keys
    /\ DOMAIN m.rec = DOMAIN s.rec
    /\ \A t \in DOMAIN s.rec :
          /\ DOMAIN m.rec[t] = DOMAIN s.rec[t]
          /\ \A w \in DOMAIN s.rec[t] :
                m.rec[t][w] = IF w <= i THEN s.rec[t][w]
                              ELSE <<s.rec[t][w][1], None>>

----------------------------------------------------------------------------
(* Properties of the per-week evaluation loop *)

\* C15: in app.evaluate, a week whose solve raised EquilibriumError has no
\* entry in the result and the loop goes on to the next week; every week i
\* (1-based) whose solve returned is under key i with its ranking under the
\* given source name; no EquilibriumError escapes, and the loop ends only
\* after every week of the list has been tried.
C15_GracefulDegradation ==
    /\ app_pc = "error" => results[Len(results)].kind # "EquilibriumError"
    /\ app_pc \in {"evaluate", "done"} =>
          /\ Len(results) = week_i
          /\ DOMAIN rankings \subseteq 1..week_i
          /\ \A i \in 1..week_i :
                /\ results[i].kind = "EquilibriumError" => i \notin DOMAIN rankings
                /\ results[i].kind = "returned" =>
                      /\ i \in DOMAIN rankings
                      /\ rankings[i] = [name |-> SourceName(score),
                                        ranking |-> Get(results[i].ranking)]
    /\ app_pc = "done" => week_i = Len(margins)

\* The loop has ended after a week that raised EquilibriumError was
\* followed by a week that returned a ranking.
C15_Witness ==
    /\ app_pc = "done"
    /\ \E i, j \in 1..Len(results) :
          /\ i < j
          /\ results[i].kind = "EquilibriumError"
          /\ results[j].kind = "returned"
          /\ DOMAIN rankings = {k \in 1..Len(results) : results[k].kind = "returned"}

----------------------------------------------------------------------------
(* app: merge_rankings *)

\* Most rankings dicts that exist before the first merge.
MaxDicts == 2
\* Most arguments of one call of merge_rankings.
MaxArgs == 3
\* Most calls of merge_rankings.
MaxMerges == 2

MergeWeeks == {1, 2}
SourceNames == {"AP Top 25", "Margin Unaware Algorithm"}

\* The order a rankings dict holds its weeks in.
WeekOrders(W) ==
    {o \in UNION {[1..n -> W] : n \in 0..Cardinality(W)} :
        /\ Len(o) = Cardinality(W)
        /\ SeqToSet(o) = W}

\* The contents a rankings dict can have before any merge: week -> names,
\* every name with the ranking of that dict (ranking j for dict j).
DictShapes ==
    UNION {[W -> (SUBSET SourceNames) \ {{}}] : W \in SUBSET MergeWeeks}

\* The content of a rankings dict, whatever objects hold it:
\* week -> name -> ranking.
Content(d, objects) == [w \in SeqToSet(d.keys) |-> objects[d.rec[w]]]

\* Rankings dict number j of shape sh with weeks in order o, its per-week
\* dicts at the references base + 1, base + 2, ...
NewDict(o, base) == [keys |-> o, rec |-> [w \in SeqToSet(o) |->
                        base + (CHOOSE k \in 1..Len(o) : o[k] = w)]]
NewInner(sh, o, j) == [k \in 1..Len(o) |-> [n \in sh[o[k]] |-> j]]

\* main has its rankings dicts, polls and evaluate results, none sharing a
\* per-week dict with another.
RECURSIVE BuildDicts(_, _, _)
BuildDicts(shapes, orders, j) ==
    IF j = 0 THEN [outer |-> <<>>, inner |-> <<>>]
    ELSE LET rest == BuildDicts(shapes, orders, j - 1) IN
         [outer |-> Append(rest.outer, NewDict(orders[j], Len(rest.inner))),
          inner |-> rest.inner \o NewInner(shapes[j], orders[j], j)]

InitMerge ==
    /\ \E shapes \in [1..MaxDicts -> DictShapes] :
       \E orders \in [1..MaxDicts -> UNION {WeekOrders(W) : W \in SUBSET MergeWeeks}] :
          /\ \A j \in 1..MaxDicts : SeqToSet(orders[j]) = DOMAIN shapes[j]
          /\ outer = BuildDicts(shapes, orders, MaxDicts).outer
          /\ inner = BuildDicts(shapes, orders, MaxDicts).inner
    /\ args = <<>>
    /\ merged = EmptyDict
    /\ merge_pc = "idle"
    /\ arg_i = 0
    /\ key_i = 0
    /\ given = <<>>
    /\ result = 0
    /\ SchedIdle
    /\ PowerIdle
    /\ RankIdle
    /\ AppIdle

\* The position of the next item of the two loops at or after (a, k):
\* arguments without a key left are passed over.
RECURSIVE NextItem(_, _, _, _)
NextItem(dicts, refs, a, k) ==
    IF a > Len(refs) THEN <<a, 1>>
    ELSE IF k <= Len(dicts[refs[a]].keys) THEN <<a, k>>
    ELSE NextItem(dicts, refs, a + 1, 1)

\* merge_rankings(*args) is called: merged = {}.
MergeCall(refs) ==
    /\ merge_pc \in {"idle", "returned"}
    /\ Len(outer) < MaxDicts + MaxMerges
    /\ args' = refs
    /\ given' = [j \in 1..Len(refs) |-> Content(outer[refs[j]], inner)]
    /\ merged' = EmptyDict
    /\ arg_i' = NextItem(outer, refs, 1, 1)[1]
    /\ key_i' = NextItem(outer, refs, 1, 1)[2]
    /\ merge_pc' = "loop"
    /\ UNCHANGED <<inner, outer, result>>
    /\ UNCHANGED <<sched_vars, power_vars, rank_vars, app_vars>>

\* merged[key].update(val) keeping the items the object already has.
UpdateKeepsOld(objects, ref, val) ==
    [objects EXCEPT ![ref] = [n \in DOMAIN @ \cup DOMAIN val |->
                                 IF n \in DOMAIN @ THEN @[n] ELSE val[n]]]

\* merged[key].update(val): the object under the key takes the items of val.
Update(objects, ref, val) ==
    [objects EXCEPT ![ref] = [n \in DOMAIN @ \cup DOMAIN val |->
                                 IF n \in DOMAIN val THEN val[n] ELSE @[n]]]

\* One pass of the inner loop, for the item (key, val) of the argument.
MergeStep ==
    /\ merge_pc = "loop"
    /\ arg_i <= Len(args)
    /\ LET arg == outer[args[arg_i]]
           key == arg.keys[key_i]
           val == arg.rec[key]
       IN  IF key \in SeqToSet(merged.keys)
           THEN /\ inner' = Update(inner, merged.rec[key], inner[val])
                /\ UNCHANGED merged
           ELSE /\ merged' = DictSet(merged, key, val)
                /\ UNCHANGED inner
    /\ arg_i' = NextItem(outer, args, arg_i, key_i + 1)[1]
    /\ key_i' = NextItem(outer, args, arg_i, key_i + 1)[2]
    /\ UNCHANGED <<outer, args, merge_pc, given, result>>
    /\ UNCHANGED <<sched_vars, power_vars, rank_vars, app_vars>>

\* return merged
MergeReturn ==
    /\ merge_pc = "loop"
    /\ arg_i > Len(args)
    /\ outer' = Append(outer, merged)
    /\ result' = Len(outer) + 1
    /\ merge_pc' = "returned"
    /\ UNCHANGED <<inner, args, merged, arg_i, key_i, given>>
    /\ UNCHANGED <<sched_vars, power_vars, rank_vars, app_vars>>

\* The ranking the caller writes into the merged dict.
NewRanking == 0

\* The caller updates the dict it got back, once: ranks[week][name] = ranking.
UpdateResult(week, name) ==
    /\ merge_pc = "returned"
    /\ week \in SeqToSet(outer[result].keys)
    /\ inner' = Update(inner, outer[result].rec[week], name :> NewRanking)
    /\ merge_pc' = "idle"
    /\ UNCHANGED <<outer, args, merged, arg_i, key_i, given, result>>
    /\ UNCHANGED <<sched_vars, power_vars, rank_vars, app_vars>>

\* The argument lists of a call: references of the dicts that exist.
ArgLists == UNION {[1..n -> 1..Len(outer)] : n \in 1..MaxArgs}

NextMerge ==
    \/ \E refs \in ArgLists : MergeCall(refs)
    \/ MergeStep
    \/ MergeReturn
    \/ \E week \in MergeWeeks, name \in SourceNames : UpdateResult(week, name)

SpecMerge == InitMerge /\ [][NextMerge]_vars

----------------------------------------------------------------------------
(* Properties of merge_rankings *)

\* The arguments that hold the pair (week, name), by position.
Holders(g, week, name) ==
    {j \in 1..Len(g) : week \in DOMAIN g[j] /\ name \in DOMAIN g[j][week]}

\* The union of the contents g[1], ..., g[k], the right-most holder of a
\* pair giving its value.
Union(g) ==
    LET weeks == UNION {DOMAIN g[j] : j \in 1..Len(g)}
        names(w) == UNION {DOMAIN g[j][w] : j \in {i \in 1..Len(g) : w \in DOMAIN g[i]}}
    IN  [w \in weeks |-> [n \in names(w) |-> g[SetMax(Holders(g, w, n))][w][n]]]

\* C21: merge_rankings(d1, ..., dk) returns a week -> name -> ranking mapping
\* whose (week, name) pairs are the union of those of the arguments as they
\* were given; a pair several arguments hold has the value of the right-most
\* of them, a pair one argument holds keeps its value.
C21_MergeIsUnion ==
    merge_pc = "returned" => Content(outer[result], inner) = Union(given)

\* No per-week dict object is under two weeks or in two arguments.
SeparateArguments ==
    /\ \A i, j \in 1..Len(args) : i # j => args[i] # args[j]
    /\ \A i, j \in 1..Len(args) :
       \A v \in DOMAIN given[i], w \in DOMAIN given[j] :
          (i # j \/ v # w) => outer[args[i]].rec[v] # outer[args[j]].rec[w]

\* merge_rankings returns the union, right-most value winning, whenever its
\* arguments are separate objects that share no per-week dict.
C21_MergeOfSeparateArguments ==
    merge_pc = "returned" /\ SeparateArguments =>
        Content(outer[result], inner) = Union(given)

\* A call with two separate arguments has returned; a pair of the result is
\* held by both with different rankings and has the second one's, another
\* pair is held by the first only and has kept its ranking.
C21_Witness ==
    /\ merge_pc = "returned"
    /\ Len(args) = 2
    /\ SeparateArguments
    /\ \E w \in DOMAIN given[1] :
       \E n, m \in DOMAIN given[1][w] :
          /\ Holders(given, w, n) = {1, 2}
          /\ given[1][w][n] # given[2][w][n]
          /\ inner[outer[result].rec[w]][n] = given[2][w][n]
          /\ Holders(given, w, m) = {1}
          /\ inner[outer[result].rec[w]][m] = given[1][w][m]

\* C22: once merge_rankings has returned, every argument, per-week dicts
\* included, has the content it was given with, and it keeps that content
\* when the caller updates the merged dict.
C22_ArgumentsUnchanged ==
    (result # 0 /\ merge_pc \in {"returned", "idle"}) =>
        \A j \in 1..Len(args) : Content(outer[args[j]], inner) = given[j]

====
